---- MODULE Spec2Model ----
(***************************************************************************)
(* Model of build.js: the builder that merges day_config.json,             *)
(* club_schedule.json, pack_schedule.json and overrides.json into          *)
(* public/today.json and public/week.json.                                 *)
(*                                                                         *)
(* JSON values are tagged records: Obj (a function from keys to values),   *)
(* Arr (elements, plus the named properties JavaScript lets an array       *)
(* carry), Str, Num, Null and Undef.  A Date is held by its local          *)
(* calendar fields.                                                        *)
(***************************************************************************)
EXTENDS Integers, Sequences, FiniteSets, TLC

VARIABLES
    files,              \* the four input files on disk: [ok, json]
    argv,               \* the value of --date=..., or NoArg
    clock,              \* the wall clock, a Date
    tz,                 \* local time = UTC + tz hours
    pc,                 \* position of main()
    dayConfig, clubSchedule, packSchedule, overridesAll,
    targetDate, todayBase, today, monday, weekBase, weekWithOverrides,
    weekI, week,        \* buildWeek's loop counter i and the week built so far
    packCodesAfter,     \* buildDay's local packCodes per participant, last call
    disk                \* the output directory and the two output files

vars == <<files, argv, clock, tz, pc, dayConfig, clubSchedule, packSchedule,
          overridesAll, targetDate, todayBase, today, monday, weekBase,
          weekWithOverrides, weekI, week, packCodesAfter, disk>>

----------------------------------------------------------------------------
(* JSON values *)

Obj(f) == [t |-> "obj", v |-> f]
Arr(s) == [t |-> "arr", v |-> s, p |-> <<>>]
ArrP(s, props) == [t |-> "arr", v |-> s, p |-> props]
Str(s) == [t |-> "str", v |-> s]
Num(n) == [t |-> "num", v |-> n]
Null == [t |-> "null"]
Undef == [t |-> "undef"]
EmptyObj == Obj(<<>>)

IsArray(x) == x.t = "arr"
\* typeof x === 'object' && x !== null && !Array.isArray(x)
IsPlainObject(x) == x.t = "obj"
\* JavaScript truthiness
Truthy(x) ==
    CASE x.t = "obj" -> TRUE
      [] x.t = "arr" -> TRUE
      [] x.t = "str" -> x.v # ""
      [] x.t = "num" -> x.v # 0
      [] OTHER -> FALSE

\* The model binds a value the code computes once as x \in {e}: the value is
\* then computed where it is bound, as a statement of the code computes it.
Only(S) == CHOOSE x \in S : TRUE

----------------------------------------------------------------------------
(* Characters of a text *)

Digits == "0123456789"
CharAt(s, i) == SubSeq(s, i, i)
IsDigit(c) == \E i \in 1..Len(Digits) : CharAt(Digits, i) = c
DigitVal(c) == (CHOOSE i \in 1..Len(Digits) : CharAt(Digits, i) = c) - 1
TwoDigits(n) == CharAt(Digits, (n \div 10) + 1) \o CharAt(Digits, (n % 10) + 1)
FourDigits(n) == TwoDigits(n \div 100) \o TwoDigits(n % 100)
AllDigits(s) == \A i \in 1..Len(s) : IsDigit(CharAt(s, i))

\* String.prototype.split for a one-character separator: the pieces between
\* the separators, of which cuts[j] is the j-th cut (0 and Len + 1 included)
Cut(cuts, j) == CHOOSE c \in cuts : Cardinality({x \in cuts : x < c}) = j
Split(s, sep) ==
    Only({[j \in 1..(Cardinality(cuts) - 1) |->
             SubSeq(s, Cut(cuts, j - 1) + 1, Cut(cuts, j) - 1)] :
          cuts \in {{i \in 1..Len(s) : CharAt(s, i) = sep} \cup {0, Len(s) + 1}}})

\* String.prototype.trim, for blanks
LeadingBlanks(s) ==
    Cardinality({k \in 1..Len(s) : \A j \in 1..k : CharAt(s, j) = " "})
TrailingBlanks(s) ==
    Cardinality({k \in 1..Len(s) : \A j \in k..Len(s) : CharAt(s, j) = " "})
TrimLeft(s) == SubSeq(s, LeadingBlanks(s) + 1, Len(s))
Trim(s) ==
    IF LeadingBlanks(s) = Len(s) THEN ""
    ELSE SubSeq(s, LeadingBlanks(s) + 1, Len(s) - TrailingBlanks(s))

\* A number or NaN
NaN == [nan |-> TRUE, n |-> 0]
Number(n) == [nan |-> FALSE, n |-> n]

\* parseInt(x, 10): leading blanks, then as many digits as there are
LeadingDigits(s, acc) ==
    LET n == Cardinality({k \in 1..Len(s) : \A j \in 1..k : IsDigit(CharAt(s, j))})
        Val[i \in 0..n] == IF i = 0 THEN acc ELSE Val[i - 1] * 10 + DigitVal(CharAt(s, i))
    IN Val[n]
parseInt(x) ==
    Only({IF s # "" /\ IsDigit(Head(s)) THEN Number(LeadingDigits(s, 0)) ELSE NaN :
          s \in {TrimLeft(x)}})

----------------------------------------------------------------------------
(* Dates: local calendar fields [y, m, d, h] *)

Years == 2022..2025
IsLeap(y) == y % 4 = 0 /\ (y % 100 # 0 \/ y % 400 = 0)
DaysInMonth(y, m) ==
    IF m = 2 THEN (IF IsLeap(y) THEN 29 ELSE 28)
    ELSE IF m \in {4, 6, 9, 11} THEN 30 ELSE 31
DaysInYear(y) == IF IsLeap(y) THEN 366 ELSE 365

RECURSIVE YearStart(_)
\* days from 2022-01-01 to the first day of year y
YearStart(y) == IF y <= 2022 THEN 0 ELSE YearStart(y - 1) + DaysInYear(y - 1)
RECURSIVE MonthStart(_, _)
MonthStart(y, m) == IF m <= 1 THEN 0 ELSE MonthStart(y, m - 1) + DaysInMonth(y, m - 1)

DayIndex(dt) == YearStart(dt.y) + MonthStart(dt.y, dt.m) + dt.d - 1
FromDayIndex(n, h) ==
    LET y == CHOOSE yy \in Years : YearStart(yy) <= n /\ n < YearStart(yy) + DaysInYear(yy)
        r == n - YearStart(y)
        m == CHOOSE mm \in 1..12 : MonthStart(y, mm) <= r /\ r < MonthStart(y, mm) + DaysInMonth(y, mm)
    IN [y |-> y, m |-> m, d |-> r - MonthStart(y, m) + 1, h |-> h]

\* Date.prototype.getDay: 0 = Sunday (2022-01-01 was a Saturday)
getDay(dt) == (DayIndex(dt) + 6) % 7
getDate(dt) == dt.d
\* Date.prototype.setDate: the day of the month, normalised across months
setDate(dt, n) == FromDayIndex(DayIndex([dt EXCEPT !.d = 1]) + n - 1, dt.h)
\* Date.prototype.setHours(0, 0, 0, 0)
setHoursZero(dt) == [dt EXCEPT !.h = 0]

IsValidDate(dt) == dt.m \in 1..12 /\ dt.d \in 1..DaysInMonth(dt.y, dt.m)
\* the local time that is h hours after (before, h < 0) 00:00 of dt
ShiftHours(dt, k) ==
    IF k < 0 THEN FromDayIndex(DayIndex(dt) - 1, 24 + k)
    ELSE FromDayIndex(DayIndex(dt), k)

\* new Date(value) for a date-only text YYYY-MM-DD: midnight UTC of that day,
\* seen in local time; anything else the model feeds it is an Invalid Date
InvalidDate == [y |-> 0, m |-> 0, d |-> 0, h |-> 0]
IsIsoText(s) ==
    /\ Len(s) = 10
    /\ CharAt(s, 5) = "-" /\ CharAt(s, 8) = "-"
    /\ AllDigits(SubSeq(s, 1, 4)) /\ AllDigits(SubSeq(s, 6, 7)) /\ AllDigits(SubSeq(s, 9, 10))
NewDate(s, zone) ==
    IF ~IsIsoText(s) THEN InvalidDate
    ELSE LET dt == [y |-> LeadingDigits(SubSeq(s, 1, 4), 0),
                    m |-> LeadingDigits(SubSeq(s, 6, 7), 0),
                    d |-> LeadingDigits(SubSeq(s, 9, 10), 0), h |-> 0]
         IN IF dt.y \in Years /\ IsValidDate(dt) THEN ShiftHours(dt, zone) ELSE InvalidDate

----------------------------------------------------------------------------
(* build.js, lines 17-121 *)

Kids == <<"C1", "C2">>
idToName == [id \in {"C1", "C2"} |-> id]
nameToId == [name \in {idToName[id] : id \in DOMAIN idToName} |->
                CHOOSE id \in DOMAIN idToName : idToName[id] = name]
defaultClothingLabels == [uniform |-> Str("Uniform"), test_wear |-> Str("Test Wear")]
defaultPackLabels ==
    [long1 |-> Str("Library books."), long2 |-> Str("Sports kit bag"),
     long3 |-> Str("Water bottle"), snack |-> Str("Snack")]
defaultDropoff == [C1 |-> "08:15", C2 |-> "08:15"]
defaultPickup == [C1 |-> "15:45", C2 |-> "16:00"]
NBSP == "_"   \* stands for U+00A0

readJsonSafe(file) == IF file.ok THEN file.json ELSE EmptyObj

NoArg == "<none>"
getTargetDate(arg, now, zone) ==
    IF arg # NoArg /\ NewDate(arg, zone) # InvalidDate THEN NewDate(arg, zone) ELSE now

isoDate(dt) == FourDigits(dt.y) \o "-" \o TwoDigits(dt.m) \o "-" \o TwoDigits(dt.d)

ordinalSuffix(n) ==
    LET v == n % 100 IN
    IF v >= 11 /\ v <= 13 THEN "th"
    ELSE CASE n % 10 = 1 -> "st"
           [] n % 10 = 2 -> "nd"
           [] n % 10 = 3 -> "rd"
           [] OTHER -> "th"

MonthNames == <<"Jan", "Feb", "Mar", "Apr", "May", "Jun",
                "Jul", "Aug", "Sep", "Oct", "Nov", "Dec">>
monthShort(dt) == MonthNames[dt.m]

DayNames == <<"Sunday", "Monday", "Tuesday", "Wednesday", "Thursday", "Friday", "Saturday">>
dayNameOf(dt) == DayNames[getDay(dt) + 1]

startOfWeekMondayOffBySunday(dt) ==
    LET day == getDay(dt)
        diff == 1 - day
    IN setHoursZero(setDate(dt, getDate(dt) + diff))

startOfWeekMonday(dt) ==
    LET day == getDay(dt)
        diff == IF day = 0 THEN -6 ELSE 1 - day
    IN setHoursZero(setDate(dt, getDate(dt) + diff))

\* String(fullName).replace(/\s*\(selective\)\s*/i, '').trim(): the first
\* "(selective)", in any case, goes with the blanks around it
UpperLetters == "ABCDEFGHIJKLMNOPQRSTUVWXYZ"
LowerLetters == "abcdefghijklmnopqrstuvwxyz"
LowerChar(c) ==
    IF \E i \in 1..Len(UpperLetters) : CharAt(UpperLetters, i) = c
    THEN CharAt(LowerLetters, CHOOSE i \in 1..Len(UpperLetters) : CharAt(UpperLetters, i) = c)
    ELSE c
Selective == "(selective)"
SelectiveAt(s, i) ==
    /\ i + Len(Selective) - 1 <= Len(s)
    /\ \A j \in 1..Len(Selective) : LowerChar(CharAt(s, i + j - 1)) = CharAt(Selective, j)
CleanedName(fullName) ==
    IF \E i \in 1..Len(fullName) : SelectiveAt(fullName, i)
    THEN Only({Trim(SubSeq(fullName, 1, i - 1 - TrailingBlanks(SubSeq(fullName, 1, i - 1)))
                      \o TrimLeft(SubSeq(fullName, i + Len(Selective), Len(fullName)))) :
                 i \in {Only({k \in 1..Len(fullName) :
                                 SelectiveAt(fullName, k)
                                   /\ \A j \in 1..(k - 1) : ~SelectiveAt(fullName, j)})}})
    ELSE Trim(fullName)
ShortNames ==
    ("KS2 Choir" :> "Choir") @@ ("Girls Football (Westway)" :> "Football")
      @@ ("Morning Drawing Club" :> "Drawing") @@ ("Chamber Choir" :> "Chamb. Choir")
      @@ ("Creative Art Club" :> "Art") @@ ("Orchestra" :> "Orchestra")
      @@ ("Touch-Typing" :> "Typing") @@ ("Technical Drawing" :> "Tech. Drawing")
      @@ ("Fencing" :> "Fencing") @@ ("Advanced Musicianship" :> "Adv. Music")
      @@ ("Advanced Art" :> "Adv. Art") @@ ("Creative Competitors" :> "Creative Comp.")
      @@ ("Violin with Ms Vican" :> "Violin") @@ ("Ballet at St Marys" :> "Ballet")
      @@ ("Tutoring with Julia" :> "Tutor w/ Julia") @@ ("Dodgeball" :> "Dodgeball")
      @@ ("Netball" :> "Netball")
shortNameForClub(fullName) ==
    LET cleaned == CleanedName(fullName) IN
    IF cleaned \in DOMAIN ShortNames THEN ShortNames[cleaned] ELSE cleaned

----------------------------------------------------------------------------
(* Property access on JSON values *)

\* the decimal text of a small natural number
NatText(n) == IF n < 10 THEN CharAt(Digits, n + 1) ELSE TwoDigits(n)
IsIndexKey(k) == k # "" /\ AllDigits(k) /\ (Len(k) = 1 \/ Head(k) # "0")
IndexOfKey(k) == LeadingDigits(k, 0)

\* x[k], undefined when absent
Get(x, k) ==
    CASE x.t = "obj" -> IF k \in DOMAIN x.v THEN x.v[k] ELSE Undef
      [] x.t = "arr" ->
            IF IsIndexKey(k)
            THEN (IF IndexOfKey(k) < Len(x.v) THEN x.v[IndexOfKey(k) + 1] ELSE Undef)
            ELSE (IF k \in DOMAIN x.p THEN x.p[k] ELSE Undef)
      [] x.t = "str" ->
            IF IsIndexKey(k) /\ IndexOfKey(k) < Len(x.v)
            THEN Str(CharAt(x.v, IndexOfKey(k) + 1)) ELSE Undef
      [] OTHER -> Undef

\* the own enumerable properties of a value: Object.entries(x), { ...x }
Entries(x) ==
    CASE x.t = "obj" -> x.v
      [] x.t = "arr" ->
            [k \in {NatText(i - 1) : i \in 1..Len(x.v)} \cup DOMAIN x.p |->
                IF IsIndexKey(k) THEN x.v[IndexOfKey(k) + 1] ELSE x.p[k]]
      [] x.t = "str" ->
            [k \in {NatText(i - 1) : i \in 1..Len(x.v)} |-> Str(CharAt(x.v, IndexOfKey(k) + 1))]
      [] OTHER -> <<>>

\* a || b
Or(a, b) == IF Truthy(a) THEN a ELSE b

----------------------------------------------------------------------------
(* deepMerge and applyOverrides *)

\* a merge that replaces at the top level only
deepMergeShallow(target, source) ==
    IF ~Truthy(source) THEN target
    ELSE Obj(Entries(source) @@ Entries(target))

RECURSIVE deepMerge(_, _)
\* what the loop stores at key: the value itself, or for a non-array object the
\* merge of it onto what the copy holds there
mergedAt(output, entries, key) ==
    IF IsPlainObject(entries[key])
    THEN deepMerge(Or(Get(output, key), EmptyObj), entries[key])
    ELSE entries[key]

\* the loop over Object.entries(source): each key is stored once, whatever
\* the order, so the copy after the loop is given key by key
mergeInto(output, entries) ==
    IF output.t = "obj"
    THEN Obj([k \in DOMAIN output.v \cup DOMAIN entries |->
                IF k \in DOMAIN entries THEN mergedAt(output, entries, k) ELSE output.v[k]])
    ELSE LET idx == {IndexOfKey(k) + 1 : k \in {kk \in DOMAIN entries : IsIndexKey(kk)}}
             n == IF idx = {} THEN Len(output.v)
                  ELSE Only({m \in idx \cup {Len(output.v)} :
                                \A j \in idx \cup {Len(output.v)} : j <= m})
         IN ArrP([j \in 1..n |->
                    IF NatText(j - 1) \in DOMAIN entries
                    THEN mergedAt(output, entries, NatText(j - 1))
                    ELSE IF j <= Len(output.v) THEN output.v[j] ELSE Undef],
                 [k \in {kk \in DOMAIN entries : ~IsIndexKey(kk)} |->
                    mergedAt(output, entries, k)])

deepMerge(target, source) ==
    IF ~Truthy(source) THEN target
    ELSE Only({mergeInto(output, entries) :
                 output \in {IF IsArray(target) THEN Arr(target.v) ELSE Obj(Entries(target))},
                 entries \in {Entries(source)}})

applyOverrides(base, overrides) == deepMerge(base, overrides)

----------------------------------------------------------------------------
(* buildDay, lines 123-245 *)

\* the helpers defined inside the loop
startTime(range) ==
    IF ~Truthy(range) THEN ""
    ELSE Only({Trim(parts[1]) : parts \in {Split(range.v, "-")}})
endTime(range) ==
    IF ~Truthy(range) THEN ""
    ELSE Only({Trim(IF Len(parts) >= 2 THEN parts[2] ELSE "") :
                 parts \in {Split(range.v, "-")}})

\* parseInt(x, 10) || 0
IntOrZero(x) == Only({IF r.nan THEN 0 ELSE r.n : r \in {parseInt(x)}})
toSortNum(t) ==
    Only({IF Len(parts) >= 2
          THEN Number(IntOrZero(parts[1]) * 60 + IntOrZero(parts[2]))
          ELSE NaN :
          parts \in {Split(IF t = "" THEN "00:00" ELSE t, ":")}})

\* a comparison with NaN is false
Below(mins, limit) == ~mins.nan /\ mins.n < limit
AtLeast(mins, limit) == ~mins.nan /\ mins.n >= limit

slotOf(mins) ==
    IF Below(mins, 660) THEN 0
    ELSE IF Below(mins, 840) THEN 1
    ELSE IF Below(mins, 1020) THEN 2
    ELSE 3
slotForStart(start) == Only({slotOf(mins) : mins \in {toSortNum(start)}})

Placeholder == [start |-> Str("-"), end |-> Str("-"), name |-> Str("-")]

\* the body of the loop over clubsForChild
putClubAlways(slots, start, end, name) ==
    [slots EXCEPT ![slotForStart(start) + 1] =
        [start |-> Str(start), end |-> Str(end), name |-> name]]

putClub(slots, start, end, name) ==
    IF slots[slotForStart(start) + 1] = Null
    THEN [slots EXCEPT ![slotForStart(start) + 1] =
            [start |-> Str(start), end |-> Str(end), name |-> name]]
    ELSE slots

\* the loop that fills the four slots (null = Null), first club to last
fillSlots(slots, clubs) ==
    LET F[k \in 0..Len(clubs)] ==
            IF k = 0 THEN slots
            ELSE Only({putClub(before, start, end, clubs[k].v.short_name) :
                         before \in {F[k - 1]},
                         start \in {startTime(clubs[k].v.time)},
                         end \in {endTime(clubs[k].v.time)}})
    IN F[Len(clubs)]

\* slots[i]?.start || other
SlotFieldOr(slots, i, field, other) ==
    IF slots[i] # Null THEN Or(slots[i][field], other) ELSE other

clubsDisplayNoAnchors(slots, dropoff, pickup) ==
    [i \in 1..4 |-> IF slots[i] # Null THEN slots[i] ELSE Placeholder]

\* clubs_display: the slots or the placeholder, then the drop-off and pick-up anchors
clubsDisplay(slots, dropoff, pickup) ==
    LET shown == [i \in 1..4 |-> IF slots[i] # Null THEN slots[i] ELSE Placeholder]
    IN [shown EXCEPT ![1].start = SlotFieldOr(slots, 1, "start", dropoff),
                     ![3].start = SlotFieldOr(slots, 3, "start", pickup),
                     ![3].end = SlotFieldOr(slots, 3, "end", pickup)]

hasAfternoonClub(clubs_display) ==
    \E i \in 1..Len(clubs_display) :
        \E mins \in {toSortNum(clubs_display[i].start.v)} :
            AtLeast(mins, 900) /\ Below(mins, 1020)

Includes(arr, x) == \E i \in 1..Len(arr.v) : arr.v[i] = x

RECURSIVE Join(_, _)
Join(labels, sep) ==
    IF labels = <<>> THEN ""
    ELSE IF Len(labels) = 1 THEN labels[1].v
    ELSE labels[1].v \o sep \o Join(Tail(labels), sep)

\* label lookup by a code that may be undefined
Label(labels, code) ==
    IF code.t = "str" /\ code.v \in DOMAIN labels THEN labels[code.v] ELSE Undef

\* x && x[k]
GuardedGet(x, k) == IF Truthy(x) THEN Get(x, k) ELSE x

\* { ...defaults, ...(dayConfig.meta?.<which> || {}) }
labelsOf(defaults, dayConfig0, which) ==
    Entries(Or(Get(Get(dayConfig0, "meta"), which), EmptyObj)) @@ defaults

\* effectiveDayRules, packByDay, clubsToday
effectiveDayRulesOf(dayConfig0, dayName) ==
    Or(Get(Get(dayConfig0, "days"), dayName), EmptyObj)
packByDayOf(packSchedule0, dayName) ==
    Or(Get(Get(packSchedule0, "pack"), dayName), EmptyObj)
clubsTodayOf(clubSchedule0, dayName) ==
    Or(GuardedGet(Get(clubSchedule0, "clubs"), dayName), Arr(<<>>))

\* packCodes, and which document's array it is (a fresh [] otherwise)
resolvePack(fromSchedule, fromRules) ==
    [origin |-> IF Truthy(fromSchedule) THEN "schedule"
                ELSE IF Truthy(fromRules) THEN "rules" ELSE "fresh",
     codes |-> Or(Or(fromSchedule, fromRules), Arr(<<>>))]

packOf(packCodes, packLabels) ==
    [i \in 1..Len(packCodes.v) |->
        Obj([code |-> packCodes.v[i],
             label |-> Or(Label(packLabels, packCodes.v[i]), packCodes.v[i])])]

clubViews(mine) ==
    [i \in 1..Len(mine) |->
        Obj([time |-> Get(mine[i], "time"),
             name |-> Get(mine[i], "club"),
             short_name |-> Str(shortNameForClub(Get(mine[i], "club").v))])]
clubsForChildOf(clubsToday, kidName) ==
    LET IsMine(entry) == IsArray(Get(entry, "participants"))
                            /\ Includes(Get(entry, "participants"), Str(kidName))
    IN clubViews(SelectSeq(clubsToday.v, IsMine))

packLabelsOf(pack) == [i \in 1..Len(pack) |-> pack[i].v.label]
packItemsOf(pack_labels) ==
    [i \in 1..(IF Len(pack_labels) < 3 THEN 3 ELSE Len(pack_labels)) |->
        IF i <= Len(pack_labels) THEN pack_labels[i] ELSE Str(NBSP)]

\* children[kidId] = { ... }
childView(clothingCode, clothingLabel, pack, dropoff, pickup, clubsForChild, clubs_display, pack_display, pack_items) ==
    Obj([clothing |-> Obj([code |-> clothingCode, label |-> clothingLabel]),
         pack |-> Arr(pack),
         dropoff |-> dropoff,
         pickup |-> pickup,
         clubs |-> Arr(clubsForChild),
         pack_display |-> Str(pack_display),
         pack_line |-> Or(Str(pack_display), Str("-")),
         pack_items |-> Arr(pack_items),
         pack_item1 |-> Or(pack_items[1], Str(NBSP)),
         pack_item2 |-> Or(pack_items[2], Str(NBSP)),
         pack_item3 |-> Or(pack_items[3], Str(NBSP)),
         clubs_display |-> Arr([i \in 1..4 |-> Obj(clubs_display[i])]),
         drop_display |-> dropoff,
         pick_display |-> pickup])

\* What one pass of the loop leaves behind. st carries what a pass can change:
\* the two documents whose arrays packCodes may alias, the packLabels of this
\* call, the children built so far and each participant's final packCodes.
afterChild(kidName, dayName, st, origin, packCodesEnd, addSnack, child) ==
    [dayConfig |->
        IF addSnack /\ origin = "rules"
        THEN [st.dayConfig EXCEPT !.v["days"].v[dayName].v["pack"].v[kidName].v = packCodesEnd]
        ELSE st.dayConfig,
     packSchedule |->
        IF addSnack /\ origin = "schedule"
        THEN [st.packSchedule EXCEPT !.v["pack"].v[dayName].v[kidName].v = packCodesEnd]
        ELSE st.packSchedule,
     packLabels |->
        IF addSnack /\ ~("snack" \in DOMAIN st.packLabels /\ Truthy(st.packLabels["snack"]))
        THEN ("snack" :> Str("Snack")) @@ st.packLabels
        ELSE st.packLabels,
     children |-> (nameToId[kidName] :> child) @@ st.children,
     packCodes |-> (kidName :> packCodesEnd) @@ st.packCodes]

\* lines 211-231: pack was mapped from packCodes before the snack is pushed
snackAndView(kidName, dayName, st, source, clothingCode, clothingLabel, dropoff, pickup, clubsForChild, clubs_display, addSnack) ==
    afterChild(kidName, dayName, st, source.origin,
               IF addSnack THEN Append(source.codes.v, Str("snack")) ELSE source.codes.v,
               addSnack,
               childView(clothingCode, clothingLabel,
                         packOf(source.codes, st.packLabels),
                         dropoff, pickup, clubsForChild, clubs_display,
                         Join(packLabelsOf(packOf(source.codes, st.packLabels)), ", "),
                         packItemsOf(packLabelsOf(packOf(source.codes, st.packLabels)))))

\* lines 185-209
slotsAndSnack(kidName, dayName, st, source, clothingCode, clothingLabel, dropoff, pickup, clubsForChild) ==
    Only({snackAndView(kidName, dayName, st, source, clothingCode, clothingLabel,
                       dropoff, pickup, clubsForChild, clubs_display,
                       hasAfternoonClub(clubs_display) /\ ~Includes(source.codes, Str("snack"))) :
            clubs_display \in {clubsDisplay(fillSlots(<<Null, Null, Null, Null>>, clubsForChild),
                                            dropoff, pickup)}})

\* lines 137-160
resolveChild(kidName, dayName, clubSchedule0, st, rules) ==
    Only({slotsAndSnack(kidName, dayName, st, source, clothingCode,
                        Or(Or(Label(labelsOf(defaultClothingLabels, st.dayConfig, "clothing_labels"),
                                    clothingCode), clothingCode), Str("")),
                        dropoff, pickup, clubsForChild) :
            source \in {resolvePack(Get(packByDayOf(st.packSchedule, dayName), kidName),
                                    GuardedGet(Get(rules, "pack"), kidName))},
            clothingCode \in {Get(Get(rules, "clothing"), kidName)},
            dropoff \in {Or(Get(Get(rules, "dropoff"), kidName),
                            Str(defaultDropoff[nameToId[kidName]]))},
            pickup \in {Or(Get(Get(rules, "pickup"), kidName),
                           Str(defaultPickup[nameToId[kidName]]))},
            clubsForChild \in {clubsForChildOf(clubsTodayOf(clubSchedule0, dayName), kidName)}})

\* one pass of the loop body for kidName
buildChild(kidName, dayName, clubSchedule0, st) ==
    resolveChild(kidName, dayName, clubSchedule0, st,
                 effectiveDayRulesOf(st.dayConfig, dayName))

\* lines 234-244: the record, with the documents as the call leaves them and
\* the final packCodes of each participant
dayResult(dayName, isoDateString, end, dateObj) ==
    [record |-> Obj([day |-> Str(dayName),
                     date |-> Str(isoDateString),
                     date_number |-> Str(NatText(getDate(dateObj))),
                     date_suffix |-> Str(ordinalSuffix(getDate(dateObj))),
                     date_month |-> Str(monthShort(dateObj)),
                     children |-> Obj(end.children)]),
     dayConfig |-> end.dayConfig,
     packSchedule |-> end.packSchedule,
     packCodes |-> end.packCodes]

buildDay(dayName, isoDateString, dayConfig0, clubSchedule0, packSchedule0, zone) ==
    LET Loop[k \in 0..Len(Kids)] ==
            IF k = 0
            THEN [dayConfig |-> dayConfig0,
                  packSchedule |-> packSchedule0,
                  packLabels |-> labelsOf(defaultPackLabels, dayConfig0, "pack_labels"),
                  children |-> <<>>,
                  packCodes |-> <<>>]
            ELSE Only({buildChild(Kids[k], dayName, clubSchedule0, st) : st \in {Loop[k - 1]}})
    IN dayResult(dayName, isoDateString, Loop[Len(Kids)], NewDate(isoDateString, zone))

----------------------------------------------------------------------------
(* buildWeek, lines 247-258 *)

\* week[dayName] = rec on an object that lists its keys in insertion order
PutOrdered(o, k, val) ==
    [keys |-> IF k \in DOMAIN o.v THEN o.keys ELSE Append(o.keys, k),
     v |-> (k :> val) @@ o.v]
ObjectKeys(o) == o.keys

\* week[dayName] = buildDay(...): acc is the week so far with the documents
\* as the calls so far left them
weekPut(acc, dayName, built) ==
    [week |-> PutOrdered(acc.week, dayName, built.record),
     dayConfig |-> built.dayConfig,
     packSchedule |-> built.packSchedule,
     packCodes |-> built.packCodes]

weekDayNoSkip(acc, d, clubSchedule0, zone) ==
    weekPut(acc, dayNameOf(d),
            buildDay(dayNameOf(d), isoDate(d), acc.dayConfig, clubSchedule0,
                     acc.packSchedule, zone))

\* the body of the loop for the date d
weekDay(acc, d, clubSchedule0, zone) ==
    IF ~Truthy(Get(Get(acc.dayConfig, "days"), dayNameOf(d))) THEN acc
    ELSE weekPut(acc, dayNameOf(d),
                 buildDay(dayNameOf(d), isoDate(d), acc.dayConfig, clubSchedule0,
                          acc.packSchedule, zone))

\* const d = new Date(mondayDate); d.setDate(mondayDate.getDate() + i)
weekDate(mondayDate, n) == setDate(mondayDate, getDate(mondayDate) + n)

----------------------------------------------------------------------------
(* JSON.stringify: what reaches the file *)

RECURSIVE Serialize(_)
Serialize(x) ==
    CASE x.t = "obj" ->
            Obj([k \in {kk \in DOMAIN x.v : x.v[kk].t # "undef"} |-> Serialize(x.v[k])])
      [] x.t = "arr" ->
            Arr([i \in 1..Len(x.v) |-> IF x.v[i].t = "undef" THEN Null ELSE Serialize(x.v[i])])
      [] OTHER -> x

----------------------------------------------------------------------------
(* main, lines 264-291 *)

NotYet == Undef
todayIsoOf(dt) == isoDate(dt)
todayNameOf(dt) == dayNameOf(dt)

ReadInputs ==
    /\ pc = "start"
    /\ dayConfig' = readJsonSafe(files.day_config)
    /\ clubSchedule' = readJsonSafe(files.club_schedule)
    /\ packSchedule' = readJsonSafe(files.pack_schedule)
    /\ overridesAll' = readJsonSafe(files.overrides)
    /\ pc' = "loaded"
    /\ UNCHANGED <<files, argv, clock, tz, targetDate, todayBase, today, monday,
                   weekBase, weekWithOverrides, weekI, week, packCodesAfter, disk>>

GetTargetDate ==
    /\ pc = "loaded"
    /\ targetDate' = getTargetDate(argv, clock, tz)
    /\ pc' = "dated"
    /\ UNCHANGED <<files, argv, clock, tz, dayConfig, clubSchedule, packSchedule,
                   overridesAll, todayBase, today, monday, weekBase,
                   weekWithOverrides, weekI, week, packCodesAfter, disk>>

BuildToday ==
    /\ pc = "dated"
    /\ \E built \in {buildDay(todayNameOf(targetDate), todayIsoOf(targetDate),
                              dayConfig, clubSchedule, packSchedule, tz)} :
          /\ todayBase' = built.record
          /\ dayConfig' = built.dayConfig
          /\ packSchedule' = built.packSchedule
          /\ packCodesAfter' = built.packCodes
    /\ pc' = "todayBuilt"
    /\ UNCHANGED <<files, argv, clock, tz, clubSchedule, overridesAll, targetDate,
                   today, monday, weekBase, weekWithOverrides, weekI, week, disk>>

ApplyTodayOverrides ==
    /\ pc = "todayBuilt"
    /\ today' = applyOverrides(todayBase,
                               Get(Get(overridesAll, "by_date"), todayIsoOf(targetDate)))
    /\ pc' = "todayMerged"
    /\ UNCHANGED <<files, argv, clock, tz, dayConfig, clubSchedule, packSchedule,
                   overridesAll, targetDate, todayBase, monday, weekBase,
                   weekWithOverrides, weekI, week, packCodesAfter, disk>>

\* const monday = startOfWeekMonday(targetDate); buildWeek is entered
StartWeek ==
    /\ pc = "todayMerged"
    /\ monday' = startOfWeekMonday(targetDate)
    /\ week' = [keys |-> <<>>, v |-> <<>>]
    /\ weekI' = 0
    /\ pc' = "inWeek"
    /\ UNCHANGED <<files, argv, clock, tz, dayConfig, clubSchedule, packSchedule,
                   overridesAll, targetDate, todayBase, today, weekBase,
                   weekWithOverrides, packCodesAfter, disk>>

\* one pass of buildWeek's loop
WeekDay ==
    /\ pc = "inWeek"
    /\ weekI < 7
    /\ \E after \in {weekDay([week |-> week, dayConfig |-> dayConfig,
                              packSchedule |-> packSchedule, packCodes |-> packCodesAfter],
                             weekDate(monday, weekI), clubSchedule, tz)} :
          /\ week' = after.week
          /\ dayConfig' = after.dayConfig
          /\ packSchedule' = after.packSchedule
          /\ packCodesAfter' = after.packCodes
    /\ weekI' = weekI + 1
    /\ UNCHANGED <<files, argv, clock, tz, pc, clubSchedule, overridesAll, targetDate,
                   todayBase, today, monday, weekBase, weekWithOverrides, disk>>

\* return { week_order: Object.keys(week), week }
EndWeek ==
    /\ pc = "inWeek"
    /\ weekI = 7
    /\ weekBase' = [week_order |-> ObjectKeys(week), week |-> week]
    /\ pc' = "weekBuilt"
    /\ UNCHANGED <<files, argv, clock, tz, dayConfig, clubSchedule, packSchedule,
                   overridesAll, targetDate, todayBase, today, monday,
                   weekWithOverrides, weekI, week, packCodesAfter, disk>>

ApplyWeekOverrides ==
    /\ pc = "weekBuilt"
    /\ weekWithOverrides' =
          [week_order |-> weekBase.week_order,
           week |-> [keys |-> weekBase.week.keys,
                     v |-> [dayName \in DOMAIN weekBase.week.v |->
                              applyOverrides(weekBase.week.v[dayName],
                                  Get(Get(overridesAll, "by_date"),
                                      Get(weekBase.week.v[dayName], "date").v))]]]
    /\ pc' = "weekMerged"
    /\ UNCHANGED <<files, argv, clock, tz, dayConfig, clubSchedule, packSchedule,
                   overridesAll, targetDate, todayBase, today, monday, weekBase,
                   weekI, week, packCodesAfter, disk>>

\* ensureDir(OUTPUT_DIR): existsSync, then mkdirSync
EnsureDir ==
    /\ pc = "weekMerged"
    /\ disk' = [disk EXCEPT !.dir = TRUE]
    /\ pc' = "dirReady"
    /\ UNCHANGED <<files, argv, clock, tz, dayConfig, clubSchedule, packSchedule,
                   overridesAll, targetDate, todayBase, today, monday, weekBase,
                   weekWithOverrides, weekI, week, packCodesAfter>>

\* mkdirSync throws
EnsureDirFails ==
    /\ pc = "weekMerged"
    /\ ~disk.dir
    /\ pc' = "aborted"
    /\ UNCHANGED <<files, argv, clock, tz, dayConfig, clubSchedule, packSchedule,
                   overridesAll, targetDate, todayBase, today, monday, weekBase,
                   weekWithOverrides, weekI, week, packCodesAfter, disk>>

WeekJson(w) ==
    Obj([week_order |-> Arr([i \in 1..Len(w.week_order) |-> Str(w.week_order[i])]),
         week |-> Obj(w.week.v)])

Written(content) == [state |-> "written", content |-> Serialize(content)]
\* what a writeFileSync that throws can leave behind: the file as it was, or
\* a file opened and truncated
FailedWrite(before) == {before, [state |-> "partial", content |-> Null]}

WriteToday ==
    /\ pc = "dirReady"
    /\ disk' = [disk EXCEPT !.today = Written(today)]
    /\ pc' = "todayWritten"
    /\ UNCHANGED <<files, argv, clock, tz, dayConfig, clubSchedule, packSchedule,
                   overridesAll, targetDate, todayBase, today, monday, weekBase,
                   weekWithOverrides, weekI, week, packCodesAfter>>

WriteTodayFails ==
    /\ pc = "dirReady"
    /\ \E left \in FailedWrite(disk.today) : disk' = [disk EXCEPT !.today = left]
    /\ pc' = "aborted"
    /\ UNCHANGED <<files, argv, clock, tz, dayConfig, clubSchedule, packSchedule,
                   overridesAll, targetDate, todayBase, today, monday, weekBase,
                   weekWithOverrides, weekI, week, packCodesAfter>>

WriteWeek ==
    /\ pc = "todayWritten"
    /\ disk' = [disk EXCEPT !.week = Written(WeekJson(weekWithOverrides))]
    /\ pc' = "done"
    /\ UNCHANGED <<files, argv, clock, tz, dayConfig, clubSchedule, packSchedule,
                   overridesAll, targetDate, todayBase, today, monday, weekBase,
                   weekWithOverrides, weekI, week, packCodesAfter>>

WriteWeekFails ==
    /\ pc = "todayWritten"
    /\ \E left \in FailedWrite(disk.week) : disk' = [disk EXCEPT !.week = left]
    /\ pc' = "aborted"
    /\ UNCHANGED <<files, argv, clock, tz, dayConfig, clubSchedule, packSchedule,
                   overridesAll, targetDate, todayBase, today, monday, weekBase,
                   weekWithOverrides, weekI, week, packCodesAfter>>

Next ==
    \/ ReadInputs
    \/ GetTargetDate
    \/ BuildToday
    \/ ApplyTodayOverrides
    \/ StartWeek
    \/ WeekDay
    \/ EndWeek
    \/ ApplyWeekOverrides
    \/ EnsureDir
    \/ EnsureDirFails
    \/ WriteToday
    \/ WriteTodayFails
    \/ WriteWeek
    \/ WriteWeekFails

----------------------------------------------------------------------------
(* Inputs *)

Missing == [ok |-> FALSE, json |-> Null]
File(json) == [ok |-> TRUE, json |-> json]
StrArr(seq) == Arr([i \in 1..Len(seq) |-> Str(seq[i])])
StrObj(f) == Obj([k \in DOMAIN f |-> Str(f[k])])

ClubEntry(time, who, name) ==
    Obj([time |-> Str(time), participants |-> StrArr(who), club |-> Str(name)])

\* the recurring rules of one weekday
RulesOf(packC1, pickups) ==
    Obj([clothing |-> StrObj([C1 |-> "uniform", C2 |-> "test_wear"]),
         pack |-> Obj([k \in DOMAIN packC1 \cup {"C2"} |->
                          IF k = "C2" THEN StrArr(<<"long3">>) ELSE StrArr(packC1[k])]),
         dropoff |-> StrObj([C1 |-> "08:30"]),
         pickup |-> StrObj(pickups)])

DayConfigOf(dayNames, rules) == Obj([days |-> Obj([n \in dayNames |-> rules])])
ClubsOf(dayNames, clubs) == Obj([clubs |-> Obj([n \in dayNames |-> Arr(clubs)])])
PackOf(dayNames, codesC1) ==
    Obj([pack |-> Obj([n \in dayNames |-> Obj([C1 |-> StrArr(codesC1)])])])
OverridesOf(iso, fragment) == Obj([by_date |-> Obj((iso :> fragment))])

NoDir == [dir |-> FALSE,
          today |-> [state |-> "absent", content |-> Null],
          week |-> [state |-> "absent", content |-> Null]]
EmptyDir == [NoDir EXCEPT !.dir = TRUE]
StaleDir == [dir |-> TRUE,
             today |-> [state |-> "stale", content |-> Null],
             week |-> [state |-> "stale", content |-> Null]]

Noon == [y |-> 2024, m |-> 7, d |-> 24, h |-> 12]

\* the state before main() runs, for given inputs
InitWith(fs, arg, now, zone, dsk) ==
    /\ files = fs
    /\ argv = arg
    /\ clock = now
    /\ tz = zone
    /\ disk = dsk
    /\ pc = "start"
    /\ dayConfig = NotYet /\ clubSchedule = NotYet
    /\ packSchedule = NotYet /\ overridesAll = NotYet
    /\ targetDate = NotYet /\ todayBase = NotYet /\ today = NotYet
    /\ monday = NotYet /\ weekBase = NotYet /\ weekWithOverrides = NotYet
    /\ weekI = 0 /\ week = NotYet
    /\ packCodesAfter = <<>>

----------------------------------------------------------------------------
(* Spec: whole runs over a few configurations, dates, time zones and disks *)

AllDays ==
    <<"Monday", "Tuesday", "Wednesday", "Thursday", "Friday", "Saturday", "Sunday">>
WeekDays == {"Monday", "Tuesday", "Wednesday", "Thursday", "Friday"}
ArtClub == ClubEntry("15:00-16:00", <<"C1">>, "Creative Art Club")
Choir == ClubEntry("12:30-13:15", <<"C1", "C2">>, "Chamber Choir (selective)")

MainDayConfigs ==
    {Missing,
     File(DayConfigOf(WeekDays, RulesOf([C1 |-> <<"long1", "long2">>], [C1 |-> "15:30"]))),
     File(DayConfigOf(WeekDays \cup {"Sunday"}, RulesOf(<<>>, [C1 |-> "17:30", C2 |-> "17:30"])))}
MainClubs == {Missing, File(ClubsOf(WeekDays, <<Choir, ArtClub>>))}
MainPacks == {Missing, File(PackOf({"Monday", "Sunday"}, <<"long3">>))}
MainOverrides ==
    {Missing,
     File(OverridesOf("2024-07-22", Obj([children |-> Obj([C1 |-> StrObj([pickup |-> "17:30"])])])))}
MainArgs == {NoArg, "tomorrow", "2024-07-22", "2024-07-28"}
Zones == {-5, 0, 2}

Init ==
    \E dc \in MainDayConfigs, cs \in MainClubs, ps \in MainPacks, ov \in MainOverrides,
       arg \in MainArgs, zone \in Zones, dsk \in {NoDir, EmptyDir, StaleDir} :
        InitWith([day_config |-> dc, club_schedule |-> cs, pack_schedule |-> ps,
                  overrides |-> ov], arg, Noon, zone, dsk)

Spec == Init /\ [][Next]_vars

----------------------------------------------------------------------------
(* SpecDates: runs for every date of a leap year, in three time zones *)

FirstDate == [y |-> 2024, m |-> 1, d |-> 1, h |-> 0]
LastDate == [y |-> 2024, m |-> 12, d |-> 31, h |-> 0]
DateArgs == {isoDate(FromDayIndex(n, 0)) : n \in DayIndex(FirstDate)..DayIndex(LastDate)}

InitDates ==
    \E arg \in DateArgs, zone \in Zones :
        InitWith([day_config |-> Missing, club_schedule |-> Missing,
                  pack_schedule |-> Missing, overrides |-> Missing],
                 arg, Noon, zone, NoDir)

SpecDates == InitDates /\ [][Next]_vars

----------------------------------------------------------------------------
(* SpecWeek: runs for every set of weekdays the recurring rules can list,  *)
(* with clubs and packs scheduled on all seven days                        *)

SevenDays == {AllDays[n] : n \in 1..7}

InitWeek ==
    \E days \in SUBSET SevenDays, zone \in {-5, 2} :
        InitWith([day_config |-> File(DayConfigOf(days, RulesOf([C1 |-> <<"long1">>], <<>>))),
                  club_schedule |-> File(ClubsOf(SevenDays, <<Choir, ArtClub>>)),
                  pack_schedule |-> File(PackOf(SevenDays, <<"long3">>)),
                  overrides |-> Missing],
                 "2024-07-22", Noon, zone, NoDir)

SpecWeek == InitWeek /\ [][Next]_vars

----------------------------------------------------------------------------
(* SpecDay: runs for every list of up to MaxClubs clubs drawn from times   *)
(* on both sides of each slot and snack boundary, with each way a pack is  *)
(* resolved                                                                *)

MaxClubs == 2          \* clubs listed for one weekday

TimeTable ==
    {[range |-> "10:59-11:30", start |-> "10:59", end |-> "11:30", mins |-> 659],
     [range |-> "11:00-12:00", start |-> "11:00", end |-> "12:00", mins |-> 660],
     [range |-> "13:59-14:30", start |-> "13:59", end |-> "14:30", mins |-> 839],
     [range |-> "14:00-14:45", start |-> "14:00", end |-> "14:45", mins |-> 840],
     [range |-> "14:59-15:30", start |-> "14:59", end |-> "15:30", mins |-> 899],
     [range |-> "15:00 - 16:00", start |-> "15:00", end |-> "16:00", mins |-> 900],
     [range |-> "16:59-17:30", start |-> "16:59", end |-> "17:30", mins |-> 1019],
     [range |-> "17:00-18:00", start |-> "17:00", end |-> "18:00", mins |-> 1020]}
TimeInfo(range) == CHOOSE info \in TimeTable : info.range = range

ClubNames == <<"Creative Art Club", "Chamber Choir (selective)", "Fencing", "Chess">>
\* the k-th club of a list: both participants at odd places, C1 alone at even ones
ClubAt(times, k) ==
    ClubEntry(times[k].range,
              IF k % 2 = 1 THEN <<"C1", "C2">> ELSE <<"C1">>,
              ClubNames[((k - 1) % Len(ClubNames)) + 1])
ClubList(times) == [k \in 1..Len(times) |-> ClubAt(times, k)]
Reverse(seq) == [k \in 1..Len(seq) |-> seq[Len(seq) + 1 - k]]
TimeLists == UNION {[1..n -> TimeTable] : n \in 0..MaxClubs}

\* how C1's pack is resolved, and the pick-up times
PackCases ==
    {[rules |-> [C1 |-> <<"long1">>], schedule |-> FALSE, pickups |-> <<>>],
     [rules |-> [C1 |-> <<"long1">>], schedule |-> FALSE,
      pickups |-> [C1 |-> "17:30", C2 |-> "17:30"]],
     [rules |-> [C1 |-> <<"long1", "snack">>], schedule |-> FALSE, pickups |-> <<>>],
     [rules |-> <<>>, schedule |-> FALSE, pickups |-> <<>>],
     [rules |-> <<>>, schedule |-> TRUE, pickups |-> <<>>]}

InitDay ==
    \E times \in TimeLists, case \in PackCases :
        InitWith([day_config |->
                     File(DayConfigOf({"Monday", "Tuesday"}, RulesOf(case.rules, case.pickups))),
                  club_schedule |->
                     File(Obj([clubs |-> Obj([Monday |-> Arr(ClubList(times)),
                                              Tuesday |-> Arr(ClubList(Reverse(times)))])])),
                  pack_schedule |->
                     IF case.schedule THEN File(PackOf({"Monday"}, <<"long1">>)) ELSE Missing,
                  overrides |-> Missing],
                 "2024-07-22", Noon, 0, NoDir)

SpecDay == InitDay /\ [][Next]_vars

----------------------------------------------------------------------------
(* SpecMerge: runs of one built Monday under every override fragment of a  *)
(* family that meets each kind of base value with each kind of value       *)

FragmentValues ==
    {Null, Str("17:30"), Num(5), Arr(<<Str("x")>>), EmptyObj, Obj([x |-> Str("1")])}
TopKeys == {"day", "date_number", "children", "note"}
ChildKeys == {"pickup", "pack", "clothing", "clubs_display", "note"}
Fragments ==
    {Obj((k :> val)) : k \in TopKeys, val \in FragmentValues}
      \cup {Obj([children |-> Obj([C1 |-> Obj((k :> val))])]) :
               k \in ChildKeys, val \in FragmentValues}
      \cup {Null, EmptyObj, Str("ab"), Num(5), Arr(<<Str("x")>>)}
MergeOverrides ==
    {Missing, File(EmptyObj), File(OverridesOf("2024-07-23", Obj([day |-> Str("x")])))}
      \cup {File(OverridesOf("2024-07-22", fragment)) : fragment \in Fragments}

InitMerge ==
    \E ov \in MergeOverrides :
        InitWith([day_config |->
                     File(DayConfigOf(WeekDays, RulesOf([C1 |-> <<"long1", "long2">>], <<>>))),
                  club_schedule |-> File(ClubsOf(WeekDays, <<Choir, ArtClub>>)),
                  pack_schedule |-> Missing,
                  overrides |-> ov],
                 "2024-07-22", Noon, 0, NoDir)

SpecMerge == InitMerge /\ [][Next]_vars
----------------------------------------------------------------------------
(* What the properties below read off a run *)

\* the first buildDay call has returned / buildWeek has been entered
TodayBuilt == pc \notin {"start", "loaded", "dated"}
WeekEntered == TodayBuilt /\ pc \notin {"todayBuilt", "todayMerged"}
\* every record a buildDay call of the run has returned so far
BuiltRecords ==
    (IF TodayBuilt THEN {todayBase} ELSE {})
      \cup (IF WeekEntered THEN {week.v[n] : n \in DOMAIN week.v} ELSE {})

ChildOf(rec, id) == rec.v.children.v[id].v
ClubsShown(rec, id) == ChildOf(rec, id).clubs_display.v
\* the start, in minutes, of the participant's k-th club in schedule order
ClubMins(rec, id, k) == TimeInfo(ChildOf(rec, id).clubs.v[k].v.time.v).mins
ClubCount(rec, id) == Len(ChildOf(rec, id).clubs.v)
\* the slot the four time bands give a start time
BandOf(mins) == IF mins < 11 * 60 THEN 0
                ELSE IF mins < 14 * 60 THEN 1
                ELSE IF mins < 17 * 60 THEN 2 ELSE 3
ClubsInBand(rec, id, band) ==
    {k \in 1..ClubCount(rec, id) : BandOf(ClubMins(rec, id, k)) = band}
HasSnackCode(codes) == \E n \in 1..Len(codes) : codes[n] = Str("snack")
PackHasSnack(rec, id) ==
    \E n \in 1..Len(ChildOf(rec, id).pack.v) : ChildOf(rec, id).pack.v[n].v.code = Str("snack")
\* the participant's pack codes as the loaded documents resolve them for the
\* target day, before any buildDay call
LoadedPackCodes(id) ==
    resolvePack(Get(packByDayOf(readJsonSafe(files.pack_schedule), todayNameOf(targetDate)),
                    idToName[id]),
                GuardedGet(Get(effectiveDayRulesOf(readJsonSafe(files.day_config),
                                                   todayNameOf(targetDate)), "pack"),
                           idToName[id])).codes.v
StartsInSnackWindow(rec, id) ==
    \E k \in 1..ClubCount(rec, id) :
        ClubMins(rec, id, k) >= 15 * 60 /\ ClubMins(rec, id, k) < 17 * 60

----------------------------------------------------------------------------
(* C1 *)

\* C1: after the first buildDay call of a run, a participant with a club
\* starting in [15:00, 17:00) and no snack among the resolved pack codes has a
\* snack entry in the pack list of the returned record.
C1_SnackInReturnedPack ==
    pc = "todayBuilt" =>
        \A id \in DOMAIN idToName :
            (StartsInSnackWindow(todayBase, id) /\ ~HasSnackCode(LoadedPackCodes(id)))
                => PackHasSnack(todayBase, id)

\* the first call has pushed the snack code, and the record's pack lacks it
C1_SnackPushedButNotReturned ==
    /\ pc = "todayBuilt"
    /\ StartsInSnackWindow(todayBase, "C1")
    /\ ~HasSnackCode(LoadedPackCodes("C1"))
    /\ HasSnackCode(packCodesAfter["C1"])
    /\ ~PackHasSnack(todayBase, "C1")

----------------------------------------------------------------------------
(* C2 *)

\* C2: a participant whose pack codes lack snack and whose only club of the
\* day starts at 17:00, or at 14:59, ends the buildDay call with no snack
\* code appended to the pack codes.
C2_NoSnackOutsideWindow ==
    pc = "todayBuilt" =>
        \A id \in DOMAIN idToName :
            (/\ ClubCount(todayBase, id) = 1
             /\ ClubMins(todayBase, id, 1) \in {17 * 60, 14 * 60 + 59}
             /\ ~HasSnackCode(LoadedPackCodes(id)))
                => ~HasSnackCode(packCodesAfter[idToName[id]])

\* the only club starts at 17:00 and the snack code was appended
C2_SnackAtSeventeen ==
    /\ pc = "todayBuilt"
    /\ ClubCount(todayBase, "C1") = 1
    /\ ClubMins(todayBase, "C1", 1) = 17 * 60
    /\ ~HasSnackCode(LoadedPackCodes("C1"))
    /\ HasSnackCode(packCodesAfter["C1"])

----------------------------------------------------------------------------
(* C3 *)

\* C3, as stated: every clubs_display has 4 entries and every slot no club
\* occupies is the placeholder triple.
C3_PlaceholderInEveryFreeSlot ==
    \A rec \in BuiltRecords : \A id \in DOMAIN idToName :
        /\ Len(ClubsShown(rec, id)) = 4
        /\ \A band \in 0..3 :
              ClubsInBand(rec, id, band) = {}
                  => ClubsShown(rec, id)[band + 1].v = Placeholder

\* C3, amended: every clubs_display has 4 entries in morning, lunch,
\* afternoon, after-school order; a free lunch or after-school slot is the
\* placeholder triple, a free morning slot is the placeholder with the
\* drop-off time as start, and a free afternoon slot is the placeholder with
\* the pick-up time as start and end.
C3_FreeSlotsAndAnchors ==
    \A rec \in BuiltRecords : \A id \in DOMAIN idToName :
        /\ Len(ClubsShown(rec, id)) = 4
        /\ \A band \in 0..3 :
              IF ClubsInBand(rec, id, band) # {}
              THEN \E k \in ClubsInBand(rec, id, band) :
                      ClubsShown(rec, id)[band + 1].v.name = ChildOf(rec, id).clubs.v[k].v.short_name
              ELSE ClubsShown(rec, id)[band + 1].v =
                      CASE band = 0 -> [Placeholder EXCEPT !.start = ChildOf(rec, id).dropoff]
                        [] band = 2 -> [Placeholder EXCEPT !.start = ChildOf(rec, id).pickup,
                                                           !.end = ChildOf(rec, id).pickup]
                        [] OTHER -> Placeholder

\* a record with a club in the lunch slot only: three free slots, two anchors
C3_LunchOnly ==
    /\ WeekEntered
    /\ \E rec \in BuiltRecords :
          /\ ClubsInBand(rec, "C1", 1) # {}
          /\ \A band \in {0, 2, 3} : ClubsInBand(rec, "C1", band) = {}
          /\ ClubsShown(rec, "C1")[1].v.start = Str("08:30")
          /\ ClubsShown(rec, "C1")[3].v.end = Str("17:30")
          /\ ClubsShown(rec, "C1")[4].v = Placeholder

----------------------------------------------------------------------------
(* C9 *)

\* C9: in every built record, each slot that some club of the participant
\* maps to (before 11:00 -> 0, 11:00-13:59 -> 1, 14:00-16:59 -> 2, 17:00
\* onward -> 3) shows the start, end and name of the first such club in
\* schedule order.
C9_FirstClubOfSlotShown ==
    \A rec \in BuiltRecords : \A id \in DOMAIN idToName : \A band \in 0..3 :
        \A k \in ClubsInBand(rec, id, band) :
            (\A j \in ClubsInBand(rec, id, band) : k <= j)
                => ClubsShown(rec, id)[band + 1].v =
                      [start |-> Str(TimeInfo(ChildOf(rec, id).clubs.v[k].v.time.v).start),
                       end |-> Str(TimeInfo(ChildOf(rec, id).clubs.v[k].v.time.v).end),
                       name |-> ChildOf(rec, id).clubs.v[k].v.short_name]

\* two clubs of one slot, the later-starting one listed first and shown
C9_LaterStartListedFirst ==
    /\ pc = "todayBuilt"
    /\ ClubCount(todayBase, "C1") = 2
    /\ BandOf(ClubMins(todayBase, "C1", 1)) = 2
    /\ BandOf(ClubMins(todayBase, "C1", 2)) = 2
    /\ ClubMins(todayBase, "C1", 2) < ClubMins(todayBase, "C1", 1)
    /\ ClubsShown(todayBase, "C1")[3].v.name = Str("Art")

----------------------------------------------------------------------------
(* C4, C5 *)

\* the fragment main() passes to applyOverrides for today
TodayFragment == Get(Get(overridesAll, "by_date"), todayIsoOf(targetDate))

\* the replace-or-recurse rule, key by key
RECURSIVE ReplacedOrRecursed(_, _, _)
ReplacedOrRecursed(base, fragment, result) ==
    \A k \in DOMAIN fragment.v :
        IF IsPlainObject(Get(base, k)) /\ IsPlainObject(fragment.v[k])
        THEN ReplacedOrRecursed(Get(base, k), fragment.v[k], Get(result, k))
        ELSE Get(result, k) = fragment.v[k]

\* C4: for an object fragment, the merged today record follows the rule at
\* every key of the fragment: recursion only where base value and fragment
\* value are both non-array objects, the fragment's value otherwise.
C4_ReplaceUnlessBothObjects ==
    (pc = "todayMerged" /\ IsPlainObject(TodayFragment))
        => ReplacedOrRecursed(todayBase, TodayFragment, today)

\* an object fragment value met a base array, and the array is still there
C4_ArraySurvivesObject ==
    /\ pc = "todayMerged"
    /\ IsPlainObject(TodayFragment)
    /\ IsPlainObject(Get(Get(Get(TodayFragment, "children"), "C1"), "pack"))
    /\ IsArray(ChildOf(today, "C1").pack)
    /\ ChildOf(today, "C1").pack.v = ChildOf(todayBase, "C1").pack.v

\* keys of base that the fragment does not address keep their values, and
\* no key appears that neither has
RECURSIVE Framed(_, _, _)
Framed(base, fragment, result) ==
    IF ~Truthy(fragment) THEN result = base
    ELSE /\ IsPlainObject(result)
         /\ DOMAIN result.v = DOMAIN base.v \cup DOMAIN Entries(fragment)
         /\ \A k \in DOMAIN base.v :
               IF k \notin DOMAIN Entries(fragment) THEN result.v[k] = base.v[k]
               ELSE (IsPlainObject(base.v[k]) /\ IsPlainObject(Entries(fragment)[k]))
                       => Framed(base.v[k], Entries(fragment)[k], result.v[k])

\* C5: applyOverrides keeps every key path of the built record that the
\* fragment does not address, with its value, for today and for each day of
\* the week; an empty or absent fragment gives back a record equal to the
\* base.
C5_UnaddressedKeysKept ==
    /\ pc = "todayMerged" => Framed(todayBase, TodayFragment, today)
    /\ pc = "weekMerged" =>
          \A n \in DOMAIN weekBase.week.v :
              Framed(weekBase.week.v[n],
                     Get(Get(overridesAll, "by_date"), weekBase.week.v[n].v.date.v),
                     weekWithOverrides.week.v[n])

\* a fragment setting only children.C1.pickup changed that field alone
C5_OnlyPickupChanged ==
    /\ pc = "todayMerged"
    /\ TodayFragment = Obj([children |-> Obj([C1 |-> Obj([pickup |-> Str("17:30")])])])
    /\ ChildOf(today, "C1").pickup = Str("17:30")
    /\ ChildOf(todayBase, "C1").pickup = Str("15:45")
    /\ ChildOf(today, "C2") = ChildOf(todayBase, "C2")
    /\ ChildOf(today, "C1").clothing = ChildOf(todayBase, "C1").clothing

----------------------------------------------------------------------------
(* C6 *)

\* C6: when a run has ended, by completing or by aborting, today.json and
\* week.json have both been written by it or neither has.
C6_BothWrittenOrNeither ==
    pc \in {"done", "aborted"} =>
        (disk.today.state = "written" <=> disk.week.state = "written")

\* the run aborted in the second write, after the first
C6_TodayWrittenWeekNot ==
    /\ pc = "aborted"
    /\ disk.today.state = "written"
    /\ disk.week.state # "written"

----------------------------------------------------------------------------
(* C7 *)

\* C7: for every valid target date d, startOfWeekMonday(d) is a Monday at
\* 00:00, not after d, and d is one of the 7 days starting with it.
C7_MondayOfTheWeek ==
    (WeekEntered /\ IsValidDate(targetDate)) =>
        /\ getDay(monday) = 1
        /\ monday.h = 0
        /\ DayIndex(monday) <= DayIndex(targetDate)
        /\ DayIndex(targetDate) <= DayIndex(monday) + 6

\* a Sunday, six days after its Monday, in the month before
C7_SundayAcrossMonths ==
    /\ WeekEntered
    /\ getDay(targetDate) = 0
    /\ DayIndex(targetDate) = DayIndex(monday) + 6
    /\ monday.m # targetDate.m

----------------------------------------------------------------------------
(* C8 *)

\* the weekdays with a recurring-rules entry in the loaded day_config
Configured ==
    IF IsPlainObject(Get(readJsonSafe(files.day_config), "days"))
    THEN DOMAIN Get(readJsonSafe(files.day_config), "days").v
    ELSE {}
IsConfigured(n) == n \in Configured

\* C8: the week_order buildWeek returns lists exactly the weekdays that have
\* a recurring-rules entry, Monday to Sunday, and is the key set of week.
C8_WeekOrderIsConfiguredDays ==
    pc = "weekBuilt" =>
        /\ weekBase.week_order = SelectSeq(AllDays, IsConfigured)
        /\ DOMAIN weekBase.week.v = Configured

\* rules for two days only, clubs and packs scheduled on a day without rules
C8_ScheduledDaySkipped ==
    /\ pc = "weekBuilt"
    /\ Configured = {"Friday", "Tuesday"}
    /\ weekBase.week_order = <<"Tuesday", "Friday">>
    /\ Truthy(Get(Get(clubSchedule, "clubs"), "Saturday"))
    /\ Truthy(Get(Get(packSchedule, "pack"), "Saturday"))

----------------------------------------------------------------------------
(* C10 *)

\* C10: the record buildWeek builds for the target weekday equals the record
\* built for today, and the documents are as they were loaded.
C10_SameRecordBothTimes ==
    (pc = "weekBuilt" /\ todayNameOf(targetDate) \in DOMAIN weekBase.week.v) =>
        /\ weekBase.week.v[todayNameOf(targetDate)] = todayBase
        /\ dayConfig = readJsonSafe(files.day_config)
        /\ packSchedule = readJsonSafe(files.pack_schedule)

\* the week's record for the target day has the snack the today record lacks
C10_WeekRecordHasSnack ==
    /\ pc = "weekBuilt"
    /\ todayNameOf(targetDate) \in DOMAIN weekBase.week.v
    /\ PackHasSnack(weekBase.week.v[todayNameOf(targetDate)], "C1")
    /\ ~PackHasSnack(todayBase, "C1")
    /\ dayConfig # readJsonSafe(files.day_config)
====
